---- MODULE Spec2Model ----
(***************************************************************************)
(* A model of src/app.py: the POD qualification checker.                   *)
(*                                                                         *)
(*   process_file          filter, de-duplicate and sample the upload      *)
(*   user_input_interface  one annotated record per sampled row            *)
(*   generate_reports      per-DSP pass rate, summary pair and export file *)
(*   <module>              the page dispatch around the session cache      *)
(*                                                                         *)
(* A table (DataFrame) is a sequence of frame rows [index, row]: `index`   *)
(* is the pandas index label, `row` the record of the columns.  Text is a  *)
(* sequence of one-character strings, so that prefixes and lexicographic   *)
(* order are computed and not assumed.  A service number is a text cell or *)
(* a whole-number cell of the spreadsheet; the column is fully populated.  *)
(***************************************************************************)
EXTENDS Integers, Sequences, FiniteSets, TLC

VARIABLES
    file,           \* SpecSample: the table pd.read_excel returns for the upload
    np_random,      \* the process-wide numpy generator (np.random)
    calls,          \* SpecSample: the results of the process_file calls so far
    page,           \* sidebar radio: "upload" or "report"
    uploaded_file,  \* st.file_uploader: NoFile or the uploaded table
    final_data,     \* st.session_state.final_data
    saved,          \* history: the number of saves and the batch of the last one
    screen,         \* what the last script run rendered
    total_in,       \* SpecRate: len(group) of the distributor group
    qualified_in,   \* SpecRate: sum(group["Quality"] == "Yes")
    branch          \* SpecRate: the summary variant chosen for that group

vars == <<file, np_random, calls, page, uploaded_file, final_data, saved,
          screen, total_in, qualified_in, branch>>

(***************************************************************************)
(* Text                                                                    *)
(***************************************************************************)

\* The characters the model uses, in code point order (str comparison).
Chars == <<"0", "1", "2", "3", "5", "7", "A", "J", "K", "X", "a">>

DigitChars == <<"0", "1", "2", "3", "4", "5", "6", "7", "8", "9">>

ord(c) == CHOOSE k \in 1..Len(Chars) : Chars[k] = c

Min(a, b) == IF a <= b THEN a ELSE b

\* str.startswith
startswith(s, prefix) ==
    /\ Len(s) >= Len(prefix)
    /\ \A k \in 1..Len(prefix) : s[k] = prefix[k]

\* s < t for str: the first differing character decides, a proper prefix is smaller.
RECURSIVE str_lt(_, _)
str_lt(s, t) ==
    IF t = <<>> THEN FALSE
    ELSE IF s = <<>> THEN TRUE
    ELSE IF Head(s) # Head(t) THEN ord(Head(s)) < ord(Head(t))
    ELSE str_lt(Tail(s), Tail(t))

\* str(n) of a non-negative int: its decimal digits.
RECURSIVE int_str(_)
int_str(n) ==
    IF n < 10 THEN <<DigitChars[n + 1]>>
    ELSE int_str(n \div 10) \o <<DigitChars[(n % 10) + 1]>>

(***************************************************************************)
(* Cells of the service_number column                                      *)
(***************************************************************************)

Text(s) == [kind |-> "str", str |-> s]
Num(n) == [kind |-> "int", int |-> n]

\* .astype(str) on one cell
astype_str(v) == IF v.kind = "str" THEN v.str ELSE int_str(v.int)

\* The order groupby(sort=True) puts the keys in: numbers by value, text by
\* code point, and in a mixed column numbers before text.
key_lt(a, b) ==
    IF a.kind = "int" /\ b.kind = "int" THEN a.int < b.int
    ELSE IF a.kind = "str" /\ b.kind = "str" THEN str_lt(a.str, b.str)
    ELSE a.kind = "int"

\* The keys of S in ascending order of key_lt.
sorted_keys(S) ==
    [k \in 1..Cardinality(S) |->
        CHOOSE x \in S : Cardinality({y \in S : key_lt(y, x)}) = k - 1]

(***************************************************************************)
(* The seeded generator                                                    *)
(*                                                                         *)
(* numpy's Mersenne Twister is represented by a 16-bit linear congruential *)
(* generator: what process_file relies on is that the stream of draws is a *)
(* function of the generator's state alone, and that a generator made from *)
(* a seed starts in the state the seed fixes.  A generator carries `id`    *)
(* ("fresh" for one built from a seed, "global" for np.random) and `key`.  *)
(***************************************************************************)

\* np.random.RandomState(seed)
RandomState(seed) == [id |-> "fresh", key |-> seed % 65536]

next_key(k) == (25173 * k + 13849) % 65536

\* rk_interval(max): a draw in 0..max, and the generator after it.
rk_interval(max, g) ==
    LET k == next_key(g.key)
    IN [value |-> (k \div 256) % (max + 1), gen |-> [g EXCEPT !.key = k]]

\* RandomState.permutation(n): shuffle(arange(n)), i from n-1 down to 1
\* swapping x[i] and x[j], j drawn in 0..i.  Positions are 1-based here.
RECURSIVE shuffle(_, _, _)
shuffle(x, i, g) ==
    IF i < 2 THEN [perm |-> x, gen |-> g]
    ELSE LET d == rk_interval(i - 1, g)
             j == d.value + 1
             y == [x EXCEPT ![i] = x[j], ![j] = x[i]]
         IN shuffle(y, i - 1, d.gen)

permutation(n, g) == shuffle([k \in 1..n |-> k], n, g)

(***************************************************************************)
(* process_file                                                            *)
(***************************************************************************)

\* df.drop(columns=["199_pathtime"], errors="ignore")
drop_pathtime(df) ==
    [k \in 1..Len(df) |->
        [index |-> df[k].index,
         row |-> [c \in DOMAIN df[k].row \ {"199_pathtime"} |-> df[k].row[c]]]]

\* drop_duplicates left out
drop_duplicates_none(df) == df

\* df.drop_duplicates(): of rows equal in every column the first is kept.
drop_duplicates(df) ==
    LET first(r) == \A j \in 1..Len(df) : df[j].index < r.index => df[j].row # r.row
    IN SelectSeq(df, first)

\* the prefix test on text cells only, without .astype(str)
drop_550_text_only(df) ==
    LET keep(r) == ~(r.row.service_number.kind = "str"
                     /\ startswith(r.row.service_number.str, <<"5", "5", "0">>))
    IN SelectSeq(df, keep)

\* df[~df["service_number"].astype(str).str.startswith("550")]
drop_550(df) ==
    LET keep(r) == ~startswith(astype_str(r.row.service_number), <<"5", "5", "0">>)
    IN SelectSeq(df, keep)

\* df[df["state"] == 203]
keep_203(df) ==
    LET keep(r) == r.row.state = 203
    IN SelectSeq(df, keep)

\* df.groupby("service_number"): the keys, ascending
service_keys(df) ==
    sorted_keys({df[k].row.service_number : k \in 1..Len(df)})

\* the rows of one group, in the order of df
service_group(df, key) ==
    LET member(r) == r.row.service_number = key
    IN SelectSeq(df, member)

\* random_state left to the process-wide generator
random_state_shared(state, glob) == glob

\* pandas' com.random_state(state, ...) for an int: a generator of its own
random_state(state, glob) == RandomState(state)

\* x.sample(..., replace=True): n independent draws
RECURSIVE draws(_, _, _)
draws(x, n, g) ==
    IF n = 0 THEN [df |-> <<>>, gen |-> g]
    ELSE LET d == rk_interval(Len(x) - 1, g)
             rest == draws(x, n - 1, d.gen)
         IN [df |-> <<x[d.value + 1]>> \o rest.df, gen |-> rest.gen]

sample_with_replacement(x, n, g) == draws(x, n, g)

\* x.sample(n=n, random_state=g): the first n of a permutation of the rows
sample(x, n, g) ==
    LET p == permutation(Len(x), g)
    IN [df |-> [k \in 1..n |-> x[p.perm[k]]], gen |-> p.gen]

\* grouped.apply(lambda x: x.sample(n=min(30, len(x)), random_state=42)),
\* group by group in key order; np.random advances only if a sample drew from it.
RECURSIVE apply_sample(_, _, _, _)
apply_sample(df, keys, k, glob) ==
    IF k > Len(keys) THEN [df |-> <<>>, np_random |-> glob]
    ELSE LET x == service_group(df, keys[k])
             s == sample(x, Min(30, Len(x)), random_state(42, glob))
             after == IF s.gen.id = "global" THEN s.gen ELSE glob
             rest == apply_sample(df, keys, k + 1, after)
         IN [df |-> s.df \o rest.df, np_random |-> rest.np_random]

\* .reset_index(drop=True)
reset_index(df) == [k \in 1..Len(df) |-> [index |-> k - 1, row |-> df[k].row]]

\* The filtered table of lines 31-34, and the sample before reset_index (the rows
\* still carry the index labels of the upload).
eligible_df(f) == keep_203(drop_550(drop_duplicates(drop_pathtime(f))))

sampled_labelled(f, glob) ==
    LET df == eligible_df(f)
    IN apply_sample(df, service_keys(df), 1, glob)

process_file(f, glob) ==
    LET s == sampled_labelled(f, glob)
    IN [df |-> reset_index(s.df), labelled |-> s.df, np_random |-> s.np_random]

(***************************************************************************)
(* user_input_interface                                                    *)
(***************************************************************************)

REASON_KEYS == <<"00", "01", "02", "03", "04", "05", "06", "07", "08", "09", "10">>

REASONS ==
    [code \in {REASON_KEYS[k] : k \in 1..Len(REASON_KEYS)} |->
        CASE code = "00" -> "Qualified"
          [] code = "01" -> "No Address Info"
          [] code = "02" -> "Location Not Clear"
          [] code = "03" -> "No Clear Shipping Label"
          [] code = "04" -> "Public or Unsafe Area"
          [] code = "05" -> "Invalid Mailbox Delivery"
          [] code = "06" -> "Leave Outside of Building"
          [] code = "07" -> "Wrong Address"
          [] code = "08" -> "Wrong Parcel Photo"
          [] code = "09" -> "No POD"
          [] code = "10" -> "Inappropriate Delivery"]

\* str of n, zero-padded to `width` characters
RECURSIVE zero_padded(_, _)
zero_padded(n, width) ==
    IF width = 0 THEN <<>>
    ELSE zero_padded(n \div 10, width - 1) \o <<DigitChars[(n % 10) + 1]>>

\* selected_date.strftime("%Y-%m-%d")
strftime(d) ==
    zero_padded(d.year, 4) \o <<"-">> \o zero_padded(d.month, 2) \o <<"-">>
        \o zero_padded(d.day, 2)

\* Series.unique(): the distinct values in order of first appearance
RECURSIVE unique(_)
unique(values) ==
    IF values = <<>> THEN <<>>
    ELSE LET v == values[Len(values)]
             before == unique(SubSeq(values, 1, Len(values) - 1))
         IN IF \E k \in 1..Len(before) : before[k] = v THEN before
            ELSE Append(before, v)

\* pd.DataFrame(records), pd.read_excel: rows under a fresh index 0, 1, ...
frame(rows) == [k \in 1..Len(rows) |-> [index |-> k - 1, row |-> rows[k]]]

\* The record of lines 60-77 for one row: w holds what the widgets return, dsp
\* by service number (key dsp_{service}), qual and reason by index label (keys
\* qual_{i}, reason_{i}).
annotated_record(r, selected_date, w) ==
    LET qualified == w.qual[r.index]
        reason == IF qualified = "No" THEN w.reason[r.index] ELSE "00"
    IN [tno |-> r.row.tno,
        DSP |-> w.dsp[r.row.service_number],
        Date |-> strftime(selected_date),
        Quality |-> IF qualified = "Yes" THEN "Yes" ELSE "No",
        Reason |-> REASONS[reason]]
       @@ ("Driver id" :> r.row.service_number)

\* The records of the services from position k of `services` on.
RECURSIVE service_records(_, _, _, _, _)
service_records(df, services, k, selected_date, w) ==
    IF k > Len(services) THEN <<>>
    ELSE LET subset == service_group(df, services[k])
         IN [n \in 1..Len(subset) |-> annotated_record(subset[n], selected_date, w)]
            \o service_records(df, services, k + 1, selected_date, w)

user_input_interface(df, selected_date, w) ==
    LET services == unique([k \in 1..Len(df) |-> df[k].row.service_number])
        records == service_records(df, services, 1, selected_date, w)
    IN frame(records)

(***************************************************************************)
(* generate_reports                                                        *)
(***************************************************************************)

\* round(qualified_count / total * 100, 2), in hundredths of a per cent: the
\* quotient rounded to the nearest hundredth, a tie to the even one.  The float
\* quotient differs from this only where the exact quotient is a tie that no
\* float holds exactly, which takes a group of 160 rows or more; for 19999 of
\* 20000 rows Python gives 100.0, as here.
rate_of(qualified_count, total) ==
    LET n == qualified_count * 10000
        d == n \div total
        r == n % total
    IN IF 2 * r < total THEN d
       ELSE IF 2 * r > total THEN d + 1
       ELSE IF d % 2 = 0 THEN d ELSE d + 1

\* The variant of the summary pair: line 91
summary_variant(rate) == IF rate = 10000 THEN "all_qualified" ELSE "failures"

\* the keys in descending order
sorted_dsp_descending(S) ==
    [k \in 1..Cardinality(S) |->
        CHOOSE x \in S : Cardinality({y \in S : str_lt(x, y)}) = k - 1]

\* The keys of S (text) in ascending order: groupby("DSP") with sort=True.
sorted_dsp(S) ==
    [k \in 1..Cardinality(S) |->
        CHOOSE x \in S : Cardinality({y \in S : str_lt(y, x)}) = k - 1]

\* the rows of final_df with column `col` equal to v, in order
rows_where(df, col, v) ==
    LET member(r) == r.row[col] = v
    IN SelectSeq(df, member)

\* (x["Quality"] == "No").sum()
count_no(x) == Cardinality({k \in 1..Len(x) : x[k].row.Quality = "No"})

\* the label of the last maximum
idxmax_last(group) ==
    LET ids == sorted_keys({group[k].row["Driver id"] : k \in 1..Len(group)})
        service_rates == [k \in 1..Len(ids) |-> count_no(rows_where(group, "Driver id", ids[k]))]
        last == CHOOSE k \in 1..Len(ids) :
                    /\ \A l \in 1..Len(ids) : service_rates[l] <= service_rates[k]
                    /\ \A l \in (k + 1)..Len(ids) : service_rates[l] < service_rates[k]
    IN ids[last]

\* service_rates.idxmax(): service_rates is indexed by the sorted Driver ids;
\* the label of the first maximum.
idxmax(group) ==
    LET ids == sorted_keys({group[k].row["Driver id"] : k \in 1..Len(group)})
        service_rates == [k \in 1..Len(ids) |-> count_no(rows_where(group, "Driver id", ids[k]))]
        first == CHOOSE k \in 1..Len(ids) :
                    /\ \A l \in 1..Len(ids) : service_rates[l] <= service_rates[k]
                    /\ \A l \in 1..(k - 1) : service_rates[l] < service_rates[k]
    IN ids[first]

\* the last of the largest counts
most_common_last(values) ==
    LET seen == unique(values)
        count(v) == Cardinality({k \in 1..Len(values) : values[k] = v})
        last == CHOOSE k \in 1..Len(seen) :
                    /\ \A l \in 1..Len(seen) : count(seen[l]) <= count(seen[k])
                    /\ \A l \in (k + 1)..Len(seen) : count(seen[l]) < count(seen[k])
    IN seen[last]

\* Counter(values).most_common(1)[0][0]: the counts are kept in order of first
\* appearance, and the first of the largest is returned.
most_common(values) ==
    LET seen == unique(values)
        count(v) == Cardinality({k \in 1..Len(values) : values[k] = v})
        first == CHOOSE k \in 1..Len(seen) :
                    /\ \A l \in 1..Len(seen) : count(seen[l]) <= count(seen[k])
                    /\ \A l \in 1..(k - 1) : count(seen[l]) < count(seen[k])
    IN seen[first]

\* The pair (zh_summary, en_summary) of one distributor: both texts are filled
\* from the same values.
summary_pair(dsp, group) ==
    LET total == Len(group)
        qualified_count == Cardinality({k \in 1..total : group[k].row.Quality = "Yes"})
        rate == rate_of(qualified_count, total)
        text(lang) ==
            IF summary_variant(rate) = "all_qualified"
            THEN [lang |-> lang, variant |-> "all_qualified", dsp |-> dsp, total |-> total]
            ELSE LET main_service == idxmax(group)
                     reason_mode == rows_where(group, "Driver id", main_service)
                     most_common_reason ==
                        most_common([k \in 1..Len(reason_mode) |-> reason_mode[k].row.Reason])
                 IN [lang |-> lang, variant |-> "failures", dsp |-> dsp, total |-> total,
                     rate |-> rate, main_service |-> main_service,
                     most_common_reason |-> most_common_reason]
    IN <<text("zh"), text("en")>>

\* files[name] = content: a dict keeps the place of a key it already holds
dict_set(files, name, content) ==
    IF \E k \in 1..Len(files) : files[k].name = name
    THEN [k \in 1..Len(files) |->
            IF files[k].name = name THEN [name |-> name, content |-> content] ELSE files[k]]
    ELSE Append(files, [name |-> name, content |-> content])

\* f"{dsp}_report.xlsx"
report_name(dsp) == dsp \o <<"_report.xlsx">>

\* group.to_excel(writer, index=False): the rows without the index
to_excel(group) == [k \in 1..Len(group) |-> group[k].row]

\* The loop of lines 86-111 from position k of the group keys on.
RECURSIVE report_loop(_, _, _, _, _)
report_loop(final_df, keys, k, summary_blocks, files) ==
    IF k > Len(keys) THEN [summary_blocks |-> summary_blocks, files |-> files]
    ELSE LET dsp == keys[k]
             group == rows_where(final_df, "DSP", dsp)
         IN report_loop(final_df, keys, k + 1,
                        Append(summary_blocks, summary_pair(dsp, group)),
                        dict_set(files, report_name(dsp), to_excel(group)))

\* The summaries shown and the archive returned: one entry per file, in the
\* order of the dict.
generate_reports(final_df) ==
    LET grouped == sorted_dsp({final_df[k].row.DSP : k \in 1..Len(final_df)})
        done == report_loop(final_df, grouped, 1, <<>>, <<>>)
    IN [summary_blocks |-> done.summary_blocks, zip |-> done.files]

(***************************************************************************)
(* SpecSample: process_file on uploads with groups below, at and over the  *)
(* cap of 30, called repeatedly on the same upload.                        *)
(***************************************************************************)

MaxCalls == 2
MaxDup == 1
MaxOverCap == 1

NoFile == <<"no file">>

GlobalKeys == {7, 4242}

SampleServices ==
    {Text(<<"A", "1">>), Text(<<"5", "5", "0", "X">>), Text(<<"5", "5">>),
     Num(550123), Num(7)}

\* A block has every row in state 203, or its odd rows in state 200.
BlockStates == {"delivered", "mixed"}

\* The first block is short or over the cap, the second is short.
Blocks1 == [service_number : SampleServices, states : BlockStates, n : {2, 30 + MaxOverCap}]
Blocks2 == [service_number : SampleServices, states : BlockStates, n : {1, 2}]

\* n rows of one service, tno counting up from tno0.
block_rows(b, tno0, with_path, path) ==
    [k \in 1..b.n |->
        LET r == [service_number |-> b.service_number, tno |-> tno0 + k,
                  state |-> IF b.states = "mixed" /\ k % 2 = 1 THEN 200 ELSE 203]
        IN IF with_path THEN r @@ ("199_pathtime" :> path) ELSE r]

\* Two blocks and, after them, copies of the first `dup` rows.  mode "plain": no
\* 199_pathtime column, the tnos of the second block follow on; "repeat": the
\* column is there and the second block reuses the tnos and the path time of the
\* first; "repath": it reuses the tnos with another path time.
sample_file(b1, b2, mode, dup) ==
    LET wp == mode # "plain"
        r1 == block_rows(b1, 0, wp, 0)
        r2 == block_rows(b2, IF wp THEN 0 ELSE b1.n, wp, IF mode = "repath" THEN 1 ELSE 0)
    IN frame(r1 \o r2 \o SubSeq(r1, 1, Min(dup, Len(r1))))

SampleFiles ==
    {sample_file(b1, b2, mode, dup) :
        b1 \in Blocks1, b2 \in Blocks2, mode \in {"plain", "repeat", "repath"},
        dup \in 0..MaxDup}

SessionIdle ==
    /\ page = "upload"
    /\ uploaded_file = NoFile
    /\ final_data = <<>>
    /\ saved = [count |-> 0, batch |-> <<>>]
    /\ screen = [kind |-> "blank"]

RateIdle ==
    /\ total_in = 0
    /\ qualified_in = 0
    /\ branch = "none"

InitSample ==
    /\ file \in SampleFiles
    /\ np_random \in {[id |-> "global", key |-> k] : k \in GlobalKeys}
    /\ calls = <<>>
    /\ SessionIdle
    /\ RateIdle

\* One call of process_file on the upload.
ProcessFileCall ==
    /\ Len(calls) < MaxCalls
    /\ \E r \in {process_file(file, np_random)} :
          /\ calls' = Append(calls, [df |-> r.df, labelled |-> r.labelled])
          /\ np_random' = r.np_random
    /\ UNCHANGED <<file, page, uploaded_file, final_data, saved, screen,
                   total_in, qualified_in, branch>>

NextSample == ProcessFileCall

SpecSample == InitSample /\ [][NextSample]_vars

(***************************************************************************)
(* Spec: the session.  Every action is one run of the script, started by   *)
(* what the inspector did: the sidebar radio, the uploader, a widget of the *)
(* annotation form, or the Save Results button.                            *)
(***************************************************************************)

MaxSaves == 2

\* st.date_input
Today == [year |-> 2024, month |-> 3, day |-> 7]

SessionServices == {Text(<<"A", "1">>), Num(7), Text(<<"5", "5", "0", "X">>)}

\* Uploads of three delivered rows: two of one service, then one of another
\* (or of the same).
SessionFiles ==
    {sample_file([service_number |-> a, states |-> "delivered", n |-> 2],
                 [service_number |-> b, states |-> "delivered", n |-> 1], "plain", 0) :
        a \in SessionServices \ {Text(<<"5", "5", "0", "X">>)}, b \in SessionServices}

DspNames == {<<"K">>, <<"J", "a">>}

\* list(REASONS.keys())[1:], of which the inspector uses the first two
ReasonChoices == {REASON_KEYS[2], REASON_KEYS[3]}

\* What the widgets of the form can return for the sampled table df.  The
\* select box of a row is only there when its radio says No.
Widgets(df) ==
    LET services == {df[k].row.service_number : k \in 1..Len(df)}
        labels == {df[k].index : k \in 1..Len(df)}
    IN {w \in [dsp : [services -> DspNames], qual : [labels -> {"Yes", "No"}],
               reason : [labels -> ReasonChoices]] :
            \A i \in labels : w.qual[i] = "Yes" => w.reason[i] = REASON_KEYS[2]}

\* the batch added to the rows already cached
save_results_append(cache, final) == cache \o final

\* st.session_state.final_data = final_data
save_results(cache, final) == final

Init ==
    /\ SessionIdle
    /\ RateIdle
    /\ file = <<>>
    /\ calls = <<>>
    /\ np_random = [id |-> "global", key |-> 7]

\* The inspector picks a file in the uploader: the run samples it and shows the form.
Upload ==
    /\ page = "upload"
    /\ \E f \in SessionFiles : \E r \in {process_file(f, np_random)} :
           /\ uploaded_file' = f
           /\ np_random' = r.np_random
           /\ screen' = [kind |-> "annotate", sampled_df |-> r.df]
    /\ UNCHANGED <<file, calls, page, final_data, saved, total_in, qualified_in, branch>>

\* The inspector clears the uploader.
RemoveFile ==
    /\ page = "upload"
    /\ uploaded_file # NoFile
    /\ uploaded_file' = NoFile
    /\ screen' = [kind |-> "blank"]
    /\ UNCHANGED <<file, np_random, calls, page, final_data, saved, total_in,
                   qualified_in, branch>>

\* The inspector changes a widget of the form: whatever the widgets return, the
\* run builds final_data from them and drops it, the button not being pressed.
Annotate ==
    /\ page = "upload"
    /\ uploaded_file # NoFile
    /\ \E r \in {process_file(uploaded_file, np_random)} :
          /\ Widgets(r.df) # {}
          /\ screen' = [kind |-> "annotate", sampled_df |-> r.df]
          /\ np_random' = r.np_random
    /\ UNCHANGED <<file, calls, page, uploaded_file, final_data, saved, total_in,
                   qualified_in, branch>>

\* The inspector presses Save Results: lines 142-159.
SaveResults ==
    /\ page = "upload"
    /\ uploaded_file # NoFile
    /\ saved.count < MaxSaves
    /\ \E r \in {process_file(uploaded_file, np_random)} :
          /\ \E w \in Widgets(r.df) :
                \E final \in {user_input_interface(r.df, Today, w)} :
                   /\ final_data' = save_results(final_data, final)
                   /\ saved' = [count |-> saved.count + 1, batch |-> final]
                   /\ screen' = [kind |-> "saved", sampled_df |-> r.df,
                                 download |-> to_excel(final)]
          /\ np_random' = r.np_random
    /\ UNCHANGED <<file, calls, page, uploaded_file, total_in, qualified_in, branch>>

\* The inspector turns to the Report page (or the page runs again): lines 161-168.
\* The uploader is not part of this run, so its file is gone.
Report ==
    /\ page' = "report"
    /\ uploaded_file' = NoFile
    /\ IF final_data # <<>>
       THEN \E zip_file \in {generate_reports(final_data)} :
                screen' = [kind |-> "report", source |-> final_data,
                           summary_blocks |-> zip_file.summary_blocks,
                           zip |-> zip_file.zip]
       ELSE screen' = [kind |-> "warning"]
    /\ UNCHANGED <<file, np_random, calls, final_data, saved, total_in,
                   qualified_in, branch>>

\* The inspector turns back to the Upload & Inspect page: no file is uploaded yet.
BackToUpload ==
    /\ page = "report"
    /\ page' = "upload"
    /\ screen' = [kind |-> "blank"]
    /\ UNCHANGED <<file, np_random, calls, uploaded_file, final_data, saved,
                   total_in, qualified_in, branch>>

Next ==
    \/ Upload
    \/ RemoveFile
    \/ Annotate
    \/ SaveResults
    \/ Report
    \/ BackToUpload

Spec == Init /\ [][Next]_vars

(***************************************************************************)
(* SpecRate: the pass rate and the variant of the summary, for groups of   *)
(* a few rows and for groups around 20000 rows with a few failures.        *)
(***************************************************************************)

MaxSmallTotal == 12
MaxUnqualified == 2

LargeTotals == {19999, 20000, 20001}

RateInputs ==
    {<<q, t>> \in (0..MaxSmallTotal) \X (1..MaxSmallTotal) : q <= t}
        \cup {<<t - u, t>> : t \in LargeTotals, u \in 0..MaxUnqualified}

InitRate ==
    /\ \E in \in RateInputs :
        /\ qualified_in = in[1]
        /\ total_in = in[2]
    /\ branch = "none"
    /\ SessionIdle
    /\ file = <<>>
    /\ calls = <<>>
    /\ np_random = [id |-> "global", key |-> 7]

\* Lines 87-94 for a group of total_in rows, qualified_in of them qualified.
Summarise ==
    /\ branch = "none"
    /\ branch' = summary_variant(rate_of(qualified_in, total_in))
    /\ UNCHANGED <<file, np_random, calls, page, uploaded_file, final_data, saved,
                   screen, total_in, qualified_in>>

NextRate == Summarise

SpecRate == InitRate /\ [][NextRate]_vars

(***************************************************************************)
(* Claims about process_file, checked under SpecSample                     *)
(***************************************************************************)

\* The raw rows of the upload, by index label, and the service numbers in it.
raw_row(label) == file[label + 1].row
file_services == {file[k].row.service_number : k \in 1..Len(file)}

\* A number whose decimal digits start 550, said without converting it to text.
leads_550(n) == \E e \in {1, 10, 100, 1000, 10000, 100000} : n \div e = 550

has_550_prefix(v) ==
    IF v.kind = "int" THEN leads_550(v.int)
    ELSE Len(v.str) >= 3 /\ SubSeq(v.str, 1, 3) = <<"5", "5", "0">>

\* The eligible rows of service s: the distinct rows of the upload, the column
\* 199_pathtime apart, that have state 203, unless s starts with 550.
eligible_rows(s) ==
    IF has_550_prefix(s) THEN {}
    ELSE {r \in {[c \in DOMAIN file[k].row \ {"199_pathtime"} |-> file[k].row[c]] :
                    k \in 1..Len(file)} :
            r.service_number = s /\ r.state = 203}

returned_at(c, s) == {k \in 1..Len(c.df) : c.df[k].row.service_number = s}

\* C1: for every service number of the upload, process_file returns min(30, n)
\* rows of it, n being the number of its eligible rows, and the returned rows are
\* distinct eligible rows, drawn from distinct rows of the upload.
CapPerService ==
    \A i \in 1..Len(calls) : \A s \in file_services :
        LET at == returned_at(calls[i], s)
            rows == {calls[i].df[k].row : k \in at}
        IN /\ Cardinality(at) = Min(30, Cardinality(eligible_rows(s)))
           /\ Cardinality(rows) = Cardinality(at)
           /\ rows \subseteq eligible_rows(s)
           /\ Cardinality({calls[i].labelled[k].index : k \in at}) = Cardinality(at)

\* A call has cut a service with more than 30 eligible rows down to 30 and has
\* returned all the rows of a smaller one.
CapPerServiceWitness ==
    /\ Len(calls) >= 1
    /\ \E s \in file_services :
        /\ Cardinality(eligible_rows(s)) > 30
        /\ Cardinality(returned_at(calls[1], s)) = 30
    /\ \E s \in file_services :
        /\ Cardinality(eligible_rows(s)) \in 1..29
        /\ Cardinality(returned_at(calls[1], s)) = Cardinality(eligible_rows(s))

\* C2: every row process_file returns has state 203 and a service number whose
\* text does not start with 550, be the cell text or a number.
OnlyEligibleReturned ==
    \A i \in 1..Len(calls) : \A k \in 1..Len(calls[i].df) :
        /\ calls[i].df[k].row.state = 203
        /\ ~has_550_prefix(calls[i].df[k].row.service_number)

\* The upload held a number starting 550 with state 203 and a row of another
\* state, and the call returned rows.
OnlyEligibleWitness ==
    /\ Len(calls) >= 1
    /\ Len(calls[1].df) >= 1
    /\ \E k \in 1..Len(file) :
        /\ file[k].row.service_number = Num(550123)
        /\ file[k].row.state = 203
    /\ \E k \in 1..Len(file) : file[k].row.state # 203

\* C3: no two rows process_file returns were exact duplicates of each other in
\* the upload: rows equal in every column give at most one returned row.
NoDuplicateReturned ==
    \A i \in 1..Len(calls) : \A k \in 1..Len(calls[i].labelled) :
        \A l \in 1..Len(calls[i].labelled) :
            k # l => raw_row(calls[i].labelled[k].index)
                        # raw_row(calls[i].labelled[l].index)

\* The upload held an eligible row twice and the call returned it.
NoDuplicateWitness ==
    /\ Len(calls) >= 1
    /\ \E a \in 1..Len(file) : \E b \in 1..Len(file) :
        /\ a < b
        /\ file[a].row = file[b].row
        /\ \E k \in 1..Len(calls[1].labelled) : calls[1].labelled[k].index = a - 1

\* C4: on the same upload every call of process_file returns the same table:
\* the same rows in the same order, drawn from the same rows of the upload.
SameSampleEveryCall ==
    \A i \in 1..Len(calls) : \A j \in 1..Len(calls) : calls[i] = calls[j]

\* process_file ran twice on an upload with a service over the cap.
SameSampleWitness ==
    /\ Len(calls) >= 2
    /\ \E s \in file_services :
        /\ Cardinality(eligible_rows(s)) > 30
        /\ Cardinality(returned_at(calls[2], s)) = 30

(***************************************************************************)
(* Claims about generate_reports and the session cache, checked under Spec *)
(***************************************************************************)

report_shown == screen.kind = "report"

\* Of the table the report was made from: the positions of the rows of a
\* distributor, and the first of a set of positions.
dsp_rows(dsp) == {i \in 1..Len(screen.source) : screen.source[i].row.DSP = dsp}
first_of(P) == CHOOSE i \in P : \A j \in P : i <= j
summary_dsp(k) == screen.summary_blocks[k][1].dsp
failure_summaries ==
    {k \in 1..Len(screen.summary_blocks) : screen.summary_blocks[k][1].variant = "failures"}

\* One summary pair and one file per distributor of the table, the k-th file
\* being that of the k-th pair and holding the rows of its distributor.
one_report_each ==
    /\ Len(screen.summary_blocks) = Len(screen.zip)
    /\ {summary_dsp(k) : k \in 1..Len(screen.summary_blocks)}
          = {screen.source[i].row.DSP : i \in 1..Len(screen.source)}
    /\ \A k \in 1..Len(screen.summary_blocks) :
        /\ screen.summary_blocks[k][2].dsp = summary_dsp(k)
        /\ screen.zip[k].name = summary_dsp(k) \o <<"_report.xlsx">>
        /\ Len(screen.zip[k].content) = Cardinality(dsp_rows(summary_dsp(k)))
        /\ \A n \in 1..Len(screen.zip[k].content) :
            screen.zip[k].content[n].DSP = summary_dsp(k)

\* C5 as stated: the summary pairs and the files come in the order in which the
\* distributors first appear in the annotated table.
ReportsInFirstAppearanceOrder ==
    report_shown =>
        /\ one_report_each
        /\ \A k \in 1..Len(screen.summary_blocks) : \A l \in 1..Len(screen.summary_blocks) :
            k < l => first_of(dsp_rows(summary_dsp(k))) < first_of(dsp_rows(summary_dsp(l)))

\* C5 as amended: the summary pairs and the files come in ascending order of the
\* distributor name, one pair and one file per distinct name, file k with pair k.
ReportsInSortedOrder ==
    report_shown =>
        /\ one_report_each
        /\ \A k \in 1..Len(screen.summary_blocks) : \A l \in 1..Len(screen.summary_blocks) :
            k < l => str_lt(summary_dsp(k), summary_dsp(l))

\* A report of two distributors, the one named later in the alphabet appearing
\* first in the table.
ReportsOrderWitness ==
    /\ report_shown
    /\ Len(screen.summary_blocks) >= 2
    /\ first_of(dsp_rows(summary_dsp(1))) > first_of(dsp_rows(summary_dsp(2)))

\* the rows of identifier id among the positions P, and its Quality == No rows
id_rows(P, id) == {i \in P : screen.source[i].row["Driver id"] = id}
no_rows(P, id) == {i \in id_rows(P, id) : screen.source[i].row.Quality = "No"}
ids_of(P) == {screen.source[i].row["Driver id"] : i \in P}

reason_rows(Q, v) == {i \in Q : screen.source[i].row.Reason = v}

\* C7: the reason a failure summary names is the most frequent Reason of the rows
\* of the named identifier, and of the reasons as frequent it is seen first.
ReasonIsMostFrequent ==
    report_shown =>
        \A k \in failure_summaries :
            LET Q == id_rows(dsp_rows(summary_dsp(k)), screen.summary_blocks[k][1].main_service)
                r == screen.summary_blocks[k][1].most_common_reason
            IN /\ reason_rows(Q, r) # {}
               /\ \A i \in Q :
                    LET v == screen.source[i].row.Reason
                    IN /\ Cardinality(reason_rows(Q, v)) <= Cardinality(reason_rows(Q, r))
                       /\ (v # r /\ Cardinality(reason_rows(Q, v)) = Cardinality(reason_rows(Q, r)))
                             => first_of(reason_rows(Q, r)) < first_of(reason_rows(Q, v))

\* A failure summary whose identifier has two reasons equally frequent.
ReasonTieWitness ==
    /\ report_shown
    /\ \E k \in failure_summaries :
        LET Q == id_rows(dsp_rows(summary_dsp(k)), screen.summary_blocks[k][1].main_service)
            r == screen.summary_blocks[k][1].most_common_reason
        IN \E i \in Q :
            /\ screen.source[i].row.Reason # r
            /\ Cardinality(reason_rows(Q, screen.source[i].row.Reason))
                  = Cardinality(reason_rows(Q, r))

\* C8: the cache is empty until the first save and then holds exactly the batch
\* of the last save, whatever was uploaded, annotated or shown since; the Report
\* page reports on exactly the cached batch, and only when it is not empty.
CacheIsLastSave ==
    /\ final_data = saved.batch
    /\ saved.count = 0 => final_data = <<>>
    /\ page = "report" => screen.kind = (IF final_data # <<>> THEN "report" ELSE "warning")
    /\ report_shown => screen.source = final_data

\* The Report page shows the batch of the second save.
CacheWitness ==
    /\ saved.count = 2
    /\ report_shown
    /\ screen.source = saved.batch

\* C10: the identifier a failure summary names has a Quality == No row, and the
\* reason named is the Reason of one of its Quality == No rows.
ReasonIsAFailureReason ==
    report_shown =>
        \A k \in failure_summaries :
            LET N == no_rows(dsp_rows(summary_dsp(k)), screen.summary_blocks[k][1].main_service)
            IN /\ N # {}
               /\ \E i \in N :
                    screen.source[i].row.Reason = screen.summary_blocks[k][1].most_common_reason
               /\ screen.summary_blocks[k][1].most_common_reason # "Qualified"

(***************************************************************************)
(* The claim about the pass rate, checked under SpecRate                   *)
(***************************************************************************)

\* C9: the summary is the 100% qualified one only if every row of the group is
\* qualified: with fewer qualified rows than rows the rate is below 100.
AllQualifiedOnlyWithoutFailures ==
    branch = "all_qualified" => qualified_in = total_in

====
